---- MODULE Spec2Model ----
(***************************************************************************)
(* Ingredient parsing, aggregation and formatting of ReynoldsRecipes:      *)
(* recipes/ingredient_parser.py and the shopping_list view of              *)
(* recipes/views.py.                                                       *)
(*                                                                         *)
(* A Python str is a tuple of one-character strings, so that the regular   *)
(* expressions and str methods of the source act on characters.  A float   *)
(* is an exact rational n/d in lowest terms (d > 0).  The texts the        *)
(* specifications draw hold no line break, no exponent, underscore, "inf"  *)
(* or "nan", and only ASCII digits and letters.                            *)
(***************************************************************************)
EXTENDS Integers, Sequences, FiniteSets, TLC

VARIABLES
    pc,                \* where the call is: "start", "loop", or what it finished as
    arg,               \* the argument of the parser or formatter function called
    result,            \* what that function returned, or the exception it raised
    recipes,           \* views.py:109, the selected Recipe rows in queryset order
    r_idx,             \* views.py:115, position of `for r in recipes`
    item_idx,          \* views.py:117, position of `for ingredient_item in ...split(',')`
    ingredients_dict,  \* views.py:112, ingredient name -> (quantity, unit)
    dict_keys,         \* the keys of ingredients_dict in insertion order
    recipe_sources,    \* views.py:113, ingredient name -> list of recipe titles
    items,             \* views.py:161, the items handed to the template
    aggregated,        \* ingredient_parser.py:148, the dict aggregate_ingredients builds
    agg_idx            \* ingredient_parser.py:150, position of `for ... in ingredients.items()`

vars == <<pc, arg, result, recipes, r_idx, item_idx, ingredients_dict,
          dict_keys, recipe_sources, items, aggregated, agg_idx>>

shopping_vars == <<recipes, r_idx, item_idx, ingredients_dict, dict_keys,
                   recipe_sources, items>>

aggregate_vars == <<aggregated, agg_idx>>

----------------------------------------------------------------------------
(* Characters and str methods *)

Digits == {"0", "1", "2", "3", "4", "5", "6", "7", "8", "9"}

LowerLetters == <<"a", "b", "c", "d", "e", "f", "g", "h", "i", "j", "k", "l", "m", "n", "o", "p", "q", "r", "s", "t", "u", "v", "w", "x", "y", "z">>

UpperLetters == <<"A", "B", "C", "D", "E", "F", "G", "H", "I", "J", "K", "L", "M", "N", "O", "P", "Q", "R", "S", "T", "U", "V", "W", "X", "Y", "Z">>

Range(f) == {f[i] : i \in DOMAIN f}

\* [a-z] under re.IGNORECASE
Letters == Range(LowerLetters) \cup Range(UpperLetters)

\* \s
Whitespace == {" "}

Min(S) == CHOOSE x \in S : \A y \in S : x <= y

Max(S) == CHOOSE x \in S : \A y \in S : x >= y

\* length of the longest run of characters of C that starts at s[i]
RunOf(s, i, C) ==
    LET stop == {j \in i..Len(s) : s[j] \notin C}
    IN  IF stop = {} THEN Len(s) + 1 - i ELSE Min(stop) - i

\* s[i..j], empty when j < i
Slice(s, i, j) == SubSeq(s, i, j)

\* str.strip()
Strip(s) ==
    LET ns == {i \in 1..Len(s) : s[i] \notin Whitespace}
    IN  IF ns = {} THEN <<>> ELSE Slice(s, Min(ns), Max(ns))

\* str.lower() of one character
LowerChar(c) ==
    IF c \in Range(UpperLetters)
    THEN LowerLetters[CHOOSE i \in 1..26 : UpperLetters[i] = c]
    ELSE c

\* str.lower()
Lower(s) == [i \in 1..Len(s) |-> LowerChar(s[i])]

DigitVal(c) == CHOOSE v \in 0..9 : <<"0", "1", "2", "3", "4", "5", "6", "7", "8", "9">>[v + 1] = c

RECURSIVE ToInt(_)
\* int() of a run of digits
ToInt(s) ==
    IF s = <<>> THEN 0
    ELSE ToInt(Slice(s, 1, Len(s) - 1)) * 10 + DigitVal(s[Len(s)])

RECURSIVE Pow10(_)
Pow10(k) == IF k = 0 THEN 1 ELSE 10 * Pow10(k - 1)

----------------------------------------------------------------------------
(* Optional[float]: None, a float, or the exception a call raised *)

RECURSIVE GCD(_, _)
GCD(a, b) == IF b = 0 THEN a ELSE GCD(b, a % b)

Abs(x) == IF x < 0 THEN -x ELSE x

None == [tag |-> "None", n |-> 0, d |-> 1]

ZeroDivisionError == [tag |-> "ZeroDivisionError", n |-> 0, d |-> 1]

\* the float n/d, d # 0
Float(n, d) ==
    LET g == GCD(Abs(n), Abs(d))
        sg == IF d < 0 THEN -1 ELSE 1
    IN  [tag |-> "float", n |-> (sg * n) \div g, d |-> (sg * d) \div g]

IsFloat(q) == q.tag = "float"

\* truth value of an Optional[float]: None and 0.0 are false
Truthy(q) == IsFloat(q) /\ q.n # 0

\* `q or 0`
OrZero(q) == IF Truthy(q) THEN q ELSE Float(0, 1)

FAdd(p, q) == Float(p.n * q.d + q.n * p.d, p.d * q.d)

FGreater(p, q) == p.n * q.d > q.n * p.d

\* float(s) for a stripped text s: [sign] digits [. [digits]] or [sign] . digits;
\* None stands for ValueError
PyFloat(s) ==
    LET sgn  == IF Len(s) >= 1 /\ s[1] \in {"-", "+"} THEN 1 ELSE 0
        a    == RunOf(s, sgn + 1, Digits)
        dot  == IF sgn + a + 1 <= Len(s) /\ s[sgn + a + 1] = "." THEN 1 ELSE 0
        b    == IF dot = 1 THEN RunOf(s, sgn + a + 2, Digits) ELSE 0
        ip   == ToInt(Slice(s, sgn + 1, sgn + a))
        fp   == ToInt(Slice(s, sgn + a + 2, sgn + a + 1 + b))
        mag  == ip * Pow10(b) + fp
    IN  IF sgn + a + dot + b = Len(s) /\ a + b >= 1
        THEN Float(IF sgn = 1 /\ s[1] = "-" THEN -mag ELSE mag, Pow10(b))
        ELSE None

----------------------------------------------------------------------------
(* Quantity Lexer *)

NoMatch == [ok |-> FALSE, g1 |-> <<>>, g2 |-> <<>>, g3 |-> <<>>]

\* re.match(r'^(\d+)\s+(\d+)/(\d+)$', s)
MatchMixed(s) ==
    LET a == RunOf(s, 1, Digits)
        b == RunOf(s, a + 1, Whitespace)
        c == RunOf(s, a + b + 1, Digits)
        p == a + b + c + 1
        e == RunOf(s, p + 1, Digits)
    IN  IF /\ a >= 1 /\ b >= 1 /\ c >= 1 /\ e >= 1
           /\ p <= Len(s) /\ s[p] = "/"
           /\ p + e = Len(s)
        THEN [ok |-> TRUE, g1 |-> Slice(s, 1, a),
              g2 |-> Slice(s, a + b + 1, a + b + c),
              g3 |-> Slice(s, p + 1, p + e)]
        ELSE NoMatch

\* re.match(r'^(\d+)/(\d+)$', s)
MatchSimple(s) ==
    LET a == RunOf(s, 1, Digits)
        e == RunOf(s, a + 2, Digits)
    IN  IF /\ a >= 1 /\ e >= 1
           /\ a + 1 <= Len(s) /\ s[a + 1] = "/"
           /\ a + 1 + e = Len(s)
        THEN [ok |-> TRUE, g1 |-> Slice(s, 1, a), g2 |-> Slice(s, a + 2, a + 1 + e),
              g3 |-> <<>>]
        ELSE NoMatch

\* whole + numerator / denominator; the division raises on a zero denominator
Divide(whole, numerator, denominator) ==
    IF denominator = 0 THEN ZeroDivisionError
    ELSE Float(whole * denominator + numerator, denominator)

parse_quantity(quantity_str) ==
    LET s     == Strip(quantity_str)
        mixed == MatchMixed(s)
        simple == MatchSimple(s)
    IN  IF s = <<>> THEN None
        ELSE IF mixed.ok
             THEN Divide(ToInt(mixed.g1), ToInt(mixed.g2), ToInt(mixed.g3))
        ELSE IF simple.ok
             THEN Divide(0, ToInt(simple.g1), ToInt(simple.g2))
        ELSE PyFloat(s)

----------------------------------------------------------------------------
(* Unit Normalizer *)

UNIT_MAP ==
       <<"t", "s", "p">> :> <<"t", "s", "p">>
    @@ <<"t", "e", "a", "s", "p", "o", "o", "n">> :> <<"t", "s", "p">>
    @@ <<"t", "b", "s", "p">> :> <<"t", "b", "s", "p">>
    @@ <<"t", "a", "b", "l", "e", "s", "p", "o", "o", "n">> :> <<"t", "b", "s", "p">>
    @@ <<"c", "u", "p">> :> <<"c", "u", "p">>
    @@ <<"c", "u", "p", "s">> :> <<"c", "u", "p">>
    @@ <<"m", "l">> :> <<"m", "l">>
    @@ <<"m", "i", "l", "l", "i", "l", "i", "t", "e", "r">> :> <<"m", "l">>
    @@ <<"l">> :> <<"l">>
    @@ <<"l", "i", "t", "e", "r">> :> <<"l">>
    @@ <<"o", "z">> :> <<"o", "z">>
    @@ <<"o", "u", "n", "c", "e">> :> <<"o", "z">>
    @@ <<"p", "t">> :> <<"p", "t">>
    @@ <<"p", "i", "n", "t">> :> <<"p", "t">>
    @@ <<"g">> :> <<"g">>
    @@ <<"g", "r", "a", "m">> :> <<"g">>
    @@ <<"k", "g">> :> <<"k", "g">>
    @@ <<"k", "i", "l", "o", "g", "r", "a", "m">> :> <<"k", "g">>
    @@ <<"l", "b">> :> <<"l", "b">>
    @@ <<"l", "b", "s">> :> <<"l", "b">>
    @@ <<"p", "o", "u", "n", "d">> :> <<"l", "b">>
    @@ <<"p", "c">> :> <<"p", "c">>
    @@ <<"p", "i", "e", "c", "e">> :> <<"p", "c">>
    @@ <<"c", "l", "o", "v", "e">> :> <<"c", "l", "o", "v", "e">>
    @@ <<"c", "l", "o", "v", "e", "s">> :> <<"c", "l", "o", "v", "e">>
    @@ <<"b", "u", "n", "c", "h">> :> <<"b", "u", "n", "c", "h">>
    @@ <<"c", "a", "n">> :> <<"c", "a", "n">>
    @@ <<"j", "a", "r">> :> <<"j", "a", "r">>
    @@ <<"p", "a", "c", "k", "a", "g", "e">> :> <<"p", "a", "c", "k", "a", "g", "e">>
    @@ <<"p", "k", "g">> :> <<"p", "a", "c", "k", "a", "g", "e">>

CONVERSIONS ==
       <<"t", "s", "p">> :> 5
    @@ <<"t", "b", "s", "p">> :> 15
    @@ <<"c", "u", "p">> :> 240
    @@ <<"m", "l">> :> 1
    @@ <<"l">> :> 1000
    @@ <<"o", "z">> :> 30
    @@ <<"p", "t">> :> 473

\* Python None where a str is expected: its element is no character, so it
\* differs from every text
NoneStr == <<"None">>

----------------------------------------------------------------------------
(* Ingredient Line Parser *)

QtyChars == Digits \cup {".", "/"} \cup Whitespace

\* the longest of k characters that still leaves one character of the n for
\* the final (.+), given that `used` characters are already matched: the
\* groups are greedy, and any non-empty rest satisfies (.+)$
Cap(k, used, n) == IF k <= n - 1 - used THEN k ELSE n - 1 - used

\* re.match(r'^([0-9./\s]+)?\s*([a-z]{1,}(?:\s+[a-z]+)?)?\s*(.+)$', s, re.IGNORECASE)
\* on a non-empty text: each group takes, in order, the longest run that
\* leaves the rest matchable
MatchIngredient(s) ==
    LET n  == Len(s)
        l1 == Cap(RunOf(s, 1, QtyChars), 0, n)
        w1 == Cap(RunOf(s, l1 + 1, Whitespace), l1, n)
        p  == l1 + w1
        a  == Cap(RunOf(s, p + 1, Letters), p, n)
        w2 == RunOf(s, p + a + 1, Whitespace)
        b  == IF a >= 1 /\ w2 >= 1
              THEN Cap(RunOf(s, p + a + w2 + 1, Letters), p + a + w2, n)
              ELSE 0
        l2 == IF b >= 1 THEN a + w2 + b ELSE a
        w3 == Cap(RunOf(s, p + l2 + 1, Whitespace), p + l2, n)
    IN  [ok |-> TRUE, g1 |-> Slice(s, 1, l1), g2 |-> Slice(s, p + 1, p + l2),
         g3 |-> Slice(s, p + l2 + w3 + 1, n)]

Parsed(quantity, unit, name) ==
    [raised |-> FALSE, quantity |-> quantity, unit |-> unit, name |-> name]

Raised == [raised |-> TRUE, quantity |-> None, unit |-> NoneStr, name |-> <<>>]

\* UNIT_MAP.get(unit_lower, unit_lower)
Canonical(unit_lower) ==
    IF unit_lower \in DOMAIN UNIT_MAP THEN UNIT_MAP[unit_lower] ELSE unit_lower

normalize_ingredient(ingredient_line) ==
    LET line     == Strip(ingredient_line)
        match    == MatchIngredient(line)
        quantity == IF match.g1 # <<>> THEN parse_quantity(Strip(match.g1)) ELSE None
        unit     == IF match.g2 # <<>> THEN Canonical(Lower(Strip(match.g2))) ELSE NoneStr
    IN  IF line = <<>> THEN Parsed(None, NoneStr, <<>>)
        ELSE IF quantity = ZeroDivisionError THEN Raised
        ELSE Parsed(quantity, unit, Lower(Strip(match.g3)))

----------------------------------------------------------------------------
(* Quantity Formatter *)

RECURSIVE NatToStr(_)
NatToStr(k) ==
    LET digit == <<"0", "1", "2", "3", "4", "5", "6", "7", "8", "9">>[(k % 10) + 1]
    IN  IF k < 10 THEN <<digit>> ELSE Append(NatToStr(k \div 10), digit)

\* str() of an int
IntToStr(k) == IF k < 0 THEN <<"-">> \o NatToStr(-k) ELSE NatToStr(k)

RECURSIVE LimitLoop(_, _, _, _, _, _, _)
\* the convergents loop of Fraction.limit_denominator
LimitLoop(p0, q0, p1, q1, n, d, max_denominator) ==
    LET a  == n \div d
        q2 == q0 + a * q1
    IN  IF q2 > max_denominator
        THEN [p0 |-> p0, q0 |-> q0, p1 |-> p1, q1 |-> q1]
        ELSE LimitLoop(p1, q1, p0 + a * p1, q2, d, n - a * d, max_denominator)

\* |p - q|
FDist(p, q) == Float(Abs(p.n * q.d - q.n * p.d), p.d * q.d)

\* Fraction(q).limit_denominator(max_denominator)
LimitDenominator(q, max_denominator) ==
    IF q.d <= max_denominator THEN q
    ELSE LET c      == LimitLoop(0, 1, 1, 0, q.n, q.d, max_denominator)
             k      == (max_denominator - c.q0) \div c.q1
             bound1 == Float(c.p0 + k * c.p1, c.q0 + k * c.q1)
             bound2 == Float(c.p1, c.q1)
         IN  IF ~FGreater(FDist(bound2, q), FDist(bound1, q)) THEN bound2 ELSE bound1

MaxDenominator == 8

\* `unit or ""`
OrEmpty(unit) == IF unit = NoneStr THEN <<>> ELSE unit

\* unit.endswith('s')
EndsWithS(unit) == Len(unit) >= 1 /\ unit[Len(unit)] = "s"

\* the quantity text of format_quantity
QtyStr(frac) ==
    IF frac.d = 1 THEN IntToStr(frac.n)
    ELSE IF frac.n > frac.d
         THEN LET whole     == frac.n \div frac.d
                  remainder == frac.n % frac.d
              IN  IF remainder # 0
                  THEN IntToStr(whole) \o <<" ">> \o IntToStr(remainder)
                       \o <<"/">> \o IntToStr(frac.d)
                  ELSE IntToStr(whole)
         ELSE IntToStr(frac.n) \o <<"/">> \o IntToStr(frac.d)

\* the unit text of format_quantity
UnitDisplay(quantity, unit) ==
    IF OrEmpty(unit) # <<>> /\ FGreater(quantity, Float(1, 1)) /\ ~EndsWithS(unit)
    THEN Append(unit, "s")
    ELSE OrEmpty(unit)

format_quantity(quantity, unit) ==
    IF quantity = None THEN OrEmpty(unit)
    ELSE Strip(QtyStr(LimitDenominator(quantity, MaxDenominator)) \o <<" ">>
               \o UnitDisplay(quantity, unit))

----------------------------------------------------------------------------
(* shopping_list: parsing of one comma-separated item *)

ItemNumChars == Digits \cup {"."}

\* (?:\s*\(([^)]+)\))?\s*$ matches all of t
TailOK(t) ==
    LET n == Len(t)
        w == RunOf(t, 1, Whitespace)
        x == RunOf(t, w + 2, {c \in Range(t) : c # ")"})
        e == w + 1 + x + 1
    IN  \/ w = n
        \/ /\ w + 1 <= n /\ t[w + 1] = "("
           /\ x >= 1
           /\ e <= n /\ t[e] = ")"
           /\ RunOf(t, e + 1, Whitespace) = n - e

\* re.match(r'^([0-9.]+)?\s*([a-z]+)?\s*(.+?)(?:\s*\(([^)]+)\))?\s*$', s, re.IGNORECASE)
\* on a non-empty text: the greedy groups take the longest runs that leave
\* one character, the lazy (.+?) the shortest text the tail can follow
MatchItem(s) ==
    LET n  == Len(s)
        l1 == Cap(RunOf(s, 1, ItemNumChars), 0, n)
        w1 == Cap(RunOf(s, l1 + 1, Whitespace), l1, n)
        p  == l1 + w1
        a  == Cap(RunOf(s, p + 1, Letters), p, n)
        w2 == Cap(RunOf(s, p + a + 1, Whitespace), p + a, n)
        st == p + a + w2 + 1
        q  == Min({j \in st..n : TailOK(Slice(s, j + 1, n))})
    IN  [ok |-> TRUE, g1 |-> Slice(s, 1, l1), g2 |-> Slice(s, p + 1, p + a),
         g3 |-> Slice(s, st, q)]

RECURSIVE Split(_)
\* str.split(',')
Split(text) ==
    LET commas == {i \in 1..Len(text) : text[i] = ","}
    IN  IF commas = {} THEN <<text>>
        ELSE <<Slice(text, 1, Min(commas) - 1)>>
             \o Split(Slice(text, Min(commas) + 1, Len(text)))

\* the fields shopping_list reads from one item of r.ingredients
ParseItem(raw_item) ==
    LET ingredient_item == Strip(raw_item)
        match   == MatchItem(ingredient_item)
        qty_str == match.g1
    IN  IF ingredient_item = <<>>
        THEN [skip |-> TRUE, qty |-> None, unit |-> <<>>, ing_name |-> <<>>]
        ELSE [skip |-> Strip(match.g3) = <<>>,
              qty |-> IF qty_str # <<>> THEN PyFloat(qty_str) ELSE None,
              unit |-> match.g2,
              ing_name |-> Strip(match.g3)]

----------------------------------------------------------------------------
(* shopping_list: aggregation *)

\* the entry stored for a name already in ingredients_dict
MergeEntry(existing, qty, unit) ==
    IF unit = existing.unit \/ (unit = <<>> /\ existing.unit = <<>>)
    THEN LET new_qty == IF Truthy(qty)
                        THEN FAdd(OrZero(existing.qty), OrZero(qty))
                        ELSE existing.qty
         IN  [qty |-> IF Truthy(new_qty) THEN new_qty ELSE None,
              unit |-> IF unit # <<>> THEN unit ELSE existing.unit]
    ELSE IF Truthy(existing.qty) /\ Truthy(qty)
         THEN [qty |-> FAdd(existing.qty, qty), unit |-> existing.unit]
         ELSE existing

\* recipe_sources after the title is recorded for ing_name
AddSource(sources, ing_name, title) ==
    LET known == IF ing_name \in DOMAIN sources THEN sources[ing_name] ELSE <<>>
    IN  IF ing_name \in DOMAIN sources
        THEN IF title \in Range(known) THEN sources
             ELSE [sources EXCEPT ![ing_name] = Append(known, title)]
        ELSE sources @@ (ing_name :> <<title>>)

\* code points, in increasing order, of the characters the texts use
CodeOrder == <<" ", "(", ")", "+", ",", "-", ".", "/", "0", "1", "2", "3", "4", "5", "6", "7", "8", "9">> \o UpperLetters \o LowerLetters

Ord(c) == CHOOSE i \in 1..Len(CodeOrder) : CodeOrder[i] = c

\* a < b for str
LessStr(a, b) ==
    LET m    == IF Len(a) < Len(b) THEN Len(a) ELSE Len(b)
        diff == {i \in 1..m : a[i] # b[i]}
    IN  IF diff = {} THEN Len(a) < Len(b)
        ELSE Ord(a[Min(diff)]) < Ord(b[Min(diff)])

RECURSIVE SortedByLower(_)
\* sorted(keys, key=str.lower): stable, so equal keys keep their dict order
SortedByLower(keys) ==
    IF keys = <<>> THEN <<>>
    ELSE LET front == SortedByLower(Slice(keys, 1, Len(keys) - 1))
             k     == keys[Len(keys)]
             cnt   == Cardinality({i \in 1..Len(front) :
                                     ~LessStr(Lower(k), Lower(front[i]))})
         IN  Slice(front, 1, cnt) \o <<k>> \o Slice(front, cnt + 1, Len(front))

----------------------------------------------------------------------------
(* aggregate_ingredients *)

\* a dict: its keys in insertion order and the value of each key
EmptyDict == [keys |-> <<>>, map |-> <<>>]

\* `k in d`
InDict(d, k) == k \in DOMAIN d.map

\* d after `d[k] = v`: a new key goes last, a known key keeps its place
DictSet(d, k, v) ==
    IF InDict(d, k)
    THEN [keys |-> d.keys, map |-> [d.map EXCEPT ![k] = v]]
    ELSE [keys |-> Append(d.keys, k), map |-> d.map @@ (k :> v)]

\* the float q * c for an int c
FScale(q, c) == Float(q.n * c, q.d)

\* the float q / c for an int c # 0
FShrink(q, c) == Float(q.n, q.d * c)

\* f"{ing_name} ({unit})" if unit else ing_name
DecoratedKey(ing_name, unit) ==
    IF OrEmpty(unit) # <<>> THEN ing_name \o <<" ", "(">> \o unit \o <<")">> ELSE ing_name

\* a plausible slip: the first sighting stores `qty or 0`, as the merge does
FirstSightingOrZero(qty, unit) == [qty |-> OrZero(qty), unit |-> unit]

\* the tuple stored when the name is not yet in aggregated
FirstSighting(qty, unit) == [qty |-> qty, unit |-> unit]

\* aggregated after one iteration of the loop of aggregate_ingredients
AggregateEntry(agg, ing_name, qty, unit) ==
    IF ~InDict(agg, ing_name)
    THEN DictSet(agg, ing_name, FirstSighting(qty, unit))
    ELSE LET existing == agg.map[ing_name]
         IN  IF unit = existing.unit
             THEN DictSet(agg, ing_name,
                          [qty |-> FAdd(OrZero(existing.qty), OrZero(qty)),
                           unit |-> unit])
             ELSE IF unit \in DOMAIN CONVERSIONS /\ existing.unit \in DOMAIN CONVERSIONS
             THEN LET existing_in_base == FScale(OrZero(existing.qty),
                                                 CONVERSIONS[existing.unit])
                      current_in_base  == FScale(OrZero(qty), CONVERSIONS[unit])
                      total_in_base    == FAdd(existing_in_base, current_in_base)
                  IN  DictSet(agg, ing_name,
                              [qty |-> FShrink(total_in_base, CONVERSIONS[existing.unit]),
                               unit |-> existing.unit])
             ELSE DictSet(DictSet(agg, DecoratedKey(ing_name, existing.unit), existing),
                          DecoratedKey(ing_name, unit),
                          [qty |-> qty, unit |-> unit])

----------------------------------------------------------------------------
(* Bounds and inputs *)

MaxQtyLen == 5

MaxRecipes == 2

MaxItems == 2

MaxEighths == 24

MaxAggNames == 3

QtyAlphabet == {"0", "1", "2", "/", " ", "-", "."}

RECURSIVE TextsOver(_, _)
\* all texts over alphabet A of length at most k
TextsOver(A, k) ==
    IF k = 0 THEN {<<>>}
    ELSE LET shorter == TextsOver(A, k - 1)
         IN  shorter \cup {Append(t, c) : t \in shorter, c \in A}

QuantityTexts == TextsOver(QtyAlphabet, MaxQtyLen)

\* quantity segments, unit words and names of ingredient lines
LineQuantities == {<<>>, <<"2">>, <<"1", "/", "2">>, <<"1", " ", "1", "/", "2">>, <<"1", ".", "5">>, <<"1", "/", "0">>, <<"2", " ", "1", "/", "0">>}

LineUnits == DOMAIN UNIT_MAP \cup {<<>>, <<"C", "u", "p", "s">>, <<"p", "i", "n", "c", "h">>}

LineNames == {<<"f", "l", "o", "u", "r">>, <<"a">>, <<"s", "a", "l", "t", " ", "t", "o", " ", "t", "a", "s", "t", "e">>, <<"w", "h", "i", "t", "e", " ", "f", "l", "o", "u", "r">>, <<"O", "l", "i", "v", "e", " ", "O", "i", "l">>}

\* the words of a line joined by single spaces
Words(q, u, n) ==
    (IF q = <<>> THEN <<>> ELSE q \o <<" ">>)
    \o (IF u = <<>> THEN <<>> ELSE u \o <<" ">>) \o n

IngredientLines == {Words(q, u, n) : q \in LineQuantities, u \in LineUnits, n \in LineNames}

ParserTexts == QuantityTexts \cup IngredientLines

\* quantities and units handed to format_quantity
FormatQuantities ==
    {None} \cup {Float(k, 8) : k \in 0..MaxEighths} \cup {Float(k, 3) : k \in 1..4}

FormatUnits == {NoneStr, <<>>, <<"t", "s", "p">>, <<"t", "b", "s", "p">>, <<"c", "u", "p">>, <<"c", "u", "p", "s">>, <<"g">>}

\* items of Recipe.ingredients, as the recipe form joins them with commas
ItemTexts ==
    {<<"1", " ", "c", "u", "p", " ", "s", "u", "g", "a", "r">>, <<" ", "8", " ", "t", "b", "s", "p", " ", "s", "u", "g", "a", "r">>, <<"1", " ", "t", "s", "p", " ", "s", "a", "l", "t">>, <<"2", "0", "0", " ", "g", " ", "s", "a", "l", "t">>,
     <<"0", " ", "c", "u", "p", " ", "f", "l", "o", "u", "r">>, <<"c", "u", "p", " ", "f", "l", "o", "u", "r">>, <<"1", " ", "c", "u", "p", " ", "o", "n", "i", "o", "n", " ", "(", "d", "i", "c", "e", "d", ")">>,
     <<"1", " ", "c", "u", "p", " ", "o", "n", "i", "o", "n", " ", "(", "m", "i", "n", "c", "e", "d", ")">>, <<"1", " ", "c", "u", "p", " ", "O", "n", "i", "o", "n">>}

Titles == {<<"C", "a", "k", "e">>, <<"S", "o", "u", "p">>}

SeqsUpTo(S, k) == UNION {[1..m -> S] : m \in 0..k}

RECURSIVE Join(_)
\* ','.join(parts)
Join(parts) ==
    IF parts = <<>> THEN <<>>
    ELSE IF Len(parts) = 1 THEN parts[1]
    ELSE parts[1] \o <<",">> \o Join(Tail(parts))

IngredientFields == {Join(parts) : parts \in SeqsUpTo(ItemTexts, MaxItems)}

\* Recipe rows; a row's position in the queryset stands for its primary key
RecipeRows == [title : Titles, ingredients : IngredientFields]

\* Recipe.objects.filter(pk__in=ids): distinct rows in Meta.ordering '-title'
Querysets ==
    {rs \in SeqsUpTo(RecipeRows, MaxRecipes) :
        \A i, j \in 1..Len(rs) : i < j => ~LessStr(rs[i].title, rs[j].title)}

ShoppingIdle ==
    /\ recipes = <<>> /\ r_idx = 0 /\ item_idx = 0
    /\ ingredients_dict = <<>> /\ dict_keys = <<>>
    /\ recipe_sources = <<>> /\ items = <<>>

AggregateIdle == aggregated = EmptyDict /\ agg_idx = 0

\* names, quantities and units of the dicts handed to aggregate_ingredients
AggNames == {<<"f", "l", "o", "u", "r">>, <<"F", "l", "o", "u", "r">>, <<"f", "l", "o", "u", "r", " ", "(", "c", "u", "p", ")">>, <<"s", "u", "g", "a", "r">>}

AggQuantities == {None, Float(1, 1), Float(3, 2)}

AggUnits == {NoneStr, <<"c", "u", "p">>, <<"t", "b", "s", "p">>}

AggValues == [qty : AggQuantities, unit : AggUnits]

\* the keys of a dict of at most MaxAggNames names: a dict holds each key once
AggKeySeqs ==
    {q \in SeqsUpTo(AggNames, MaxAggNames) :
        \A i, j \in DOMAIN q : q[i] = q[j] => i = j}

----------------------------------------------------------------------------
(* parse_quantity and normalize_ingredient applied to one text *)

InitParser ==
    /\ pc = "start"
    /\ arg \in ParserTexts
    /\ result = None
    /\ ShoppingIdle
    /\ AggregateIdle

CallParseQuantity ==
    /\ pc = "start"
    /\ result' = parse_quantity(arg)
    /\ pc' = "parsed"
    /\ UNCHANGED <<arg, shopping_vars, aggregate_vars>>

CallNormalizeIngredient ==
    /\ pc = "start"
    /\ result' = normalize_ingredient(arg)
    /\ pc' = "normalized"
    /\ UNCHANGED <<arg, shopping_vars, aggregate_vars>>

NextParser == CallParseQuantity \/ CallNormalizeIngredient

SpecParser == InitParser /\ [][NextParser]_vars

----------------------------------------------------------------------------
(* format_quantity applied to one quantity and unit *)

InitFormat ==
    /\ pc = "start"
    /\ arg \in [quantity : FormatQuantities, unit : FormatUnits]
    /\ result = <<>>
    /\ ShoppingIdle
    /\ AggregateIdle

CallFormatQuantity ==
    /\ pc = "start"
    /\ result' = format_quantity(arg.quantity, arg.unit)
    /\ pc' = "formatted"
    /\ UNCHANGED <<arg, shopping_vars, aggregate_vars>>

NextFormat == CallFormatQuantity

SpecFormat == InitFormat /\ [][NextFormat]_vars

----------------------------------------------------------------------------
(* shopping_list *)

Init ==
    /\ pc = "loop"
    /\ recipes \in Querysets
    /\ r_idx = 1
    /\ item_idx = 1
    /\ ingredients_dict = <<>>
    /\ dict_keys = <<>>
    /\ recipe_sources = <<>>
    /\ items = <<>>
    /\ arg = <<>>
    /\ result = None
    /\ AggregateIdle

\* the items of the recipe the outer loop is at
CurrentItems == Split(recipes[r_idx].ingredients)

\* the parsed item the inner loop is at
Current == ParseItem(CurrentItems[item_idx])

\* one iteration of the inner loop, and the step to the next item or recipe
ProcessItem ==
    /\ pc = "loop"
    /\ r_idx <= Len(recipes)
    /\ LET r == recipes[r_idx]
           e == Current
       IN  IF e.skip
           THEN UNCHANGED <<ingredients_dict, dict_keys, recipe_sources>>
           ELSE /\ recipe_sources' = AddSource(recipe_sources, e.ing_name, r.title)
                /\ IF e.ing_name \notin DOMAIN ingredients_dict
                   THEN /\ ingredients_dict' = ingredients_dict @@
                              (e.ing_name :> [qty |-> e.qty, unit |-> e.unit])
                        /\ dict_keys' = Append(dict_keys, e.ing_name)
                   ELSE /\ ingredients_dict' =
                              [ingredients_dict EXCEPT ![e.ing_name] =
                                  MergeEntry(ingredients_dict[e.ing_name], e.qty, e.unit)]
                        /\ dict_keys' = dict_keys
    /\ IF item_idx < Len(CurrentItems)
       THEN item_idx' = item_idx + 1 /\ r_idx' = r_idx
       ELSE item_idx' = 1 /\ r_idx' = r_idx + 1
    /\ UNCHANGED <<pc, recipes, items, arg, result, aggregate_vars>>

\* the entry of the template context for one name
Item(ing_name) ==
    LET sources == IF ing_name \in DOMAIN recipe_sources
                   THEN recipe_sources[ing_name] ELSE <<>>
    IN  [name |-> ing_name,
         quantity |-> format_quantity(ingredients_dict[ing_name].qty,
                                      ingredients_dict[ing_name].unit),
         count |-> Len(sources),
         recipes |-> sources]

\* "Prepare items for template", once both loops are over
PrepareItems ==
    /\ pc = "loop"
    /\ r_idx > Len(recipes)
    /\ items' = [i \in 1..Len(dict_keys) |-> Item(SortedByLower(dict_keys)[i])]
    /\ pc' = "done"
    /\ UNCHANGED <<recipes, r_idx, item_idx, ingredients_dict, dict_keys,
                   recipe_sources, arg, result, aggregate_vars>>

Next == ProcessItem \/ PrepareItems

Spec == Init /\ [][Next]_vars

----------------------------------------------------------------------------
(* aggregate_ingredients applied to one dict *)

InitAggregate ==
    /\ pc = "aggregating"
    /\ \E ks \in AggKeySeqs :
          \E m \in [Range(ks) -> AggValues] : arg = [keys |-> ks, map |-> m]
    /\ result = EmptyDict
    /\ aggregated = EmptyDict
    /\ agg_idx = 1
    /\ ShoppingIdle

\* one iteration of `for ing_name, (qty, unit) in ingredients.items()`
AggregateItem ==
    /\ pc = "aggregating"
    /\ agg_idx <= Len(arg.keys)
    /\ LET ing_name == arg.keys[agg_idx]
       IN  aggregated' = AggregateEntry(aggregated, ing_name,
                                        arg.map[ing_name].qty, arg.map[ing_name].unit)
    /\ agg_idx' = agg_idx + 1
    /\ UNCHANGED <<pc, arg, result, shopping_vars>>

\* `return aggregated`, once the loop is over
ReturnAggregated ==
    /\ pc = "aggregating"
    /\ agg_idx > Len(arg.keys)
    /\ result' = aggregated
    /\ pc' = "returned"
    /\ UNCHANGED <<arg, aggregated, agg_idx, shopping_vars>>

NextAggregate == AggregateItem \/ ReturnAggregated

SpecAggregate == InitAggregate /\ [][NextAggregate]_vars

----------------------------------------------------------------------------
(* Claims about the aggregation of shopping_list *)

\* the step merges the current item into an entry stored under its name
Merging ==
    /\ pc = "loop" /\ r_idx <= Len(recipes)
    /\ ~Current.skip
    /\ Current.ing_name \in DOMAIN ingredients_dict

\* the stored entry the current item is merged into
Stored == ingredients_dict[Current.ing_name]

\* both quantities in milliliters, summed, in the stored unit
ConvertedSum(existing, qty, unit) ==
    Float((existing.qty.n * CONVERSIONS[existing.unit]) * qty.d
             + (qty.n * CONVERSIONS[unit]) * existing.qty.d,
          existing.qty.d * qty.d * CONVERSIONS[existing.unit])

\* C1: when an item is merged into an entry of the same name whose unit is a
\* different unit of the conversion table, and both quantities are present,
\* the stored entry becomes the sum of both quantities converted through
\* milliliters, in the first-seen unit.
C1_CrossUnitConverted ==
    [][(/\ Merging
        /\ Stored.unit # Current.unit
        /\ Stored.unit \in DOMAIN CONVERSIONS
        /\ Current.unit \in DOMAIN CONVERSIONS
        /\ IsFloat(Stored.qty) /\ IsFloat(Current.qty))
       => ingredients_dict'[Current.ing_name] =
              [qty |-> ConvertedSum(Stored, Current.qty, Current.unit),
               unit |-> Stored.unit]]_vars

\* C2: when an item is merged into an entry of the same name whose unit
\* differs and the two units are not both in the conversion table, the stored
\* quantity and unit stay as they are, no entry is added, and the recipe is
\* recorded as a contributor.
C2_NotConvertibleUnchanged ==
    [][(/\ Merging
        /\ Stored.unit # Current.unit
        /\ ~(Stored.unit \in DOMAIN CONVERSIONS /\ Current.unit \in DOMAIN CONVERSIONS))
       => /\ ingredients_dict'[Current.ing_name] = Stored
          /\ DOMAIN ingredients_dict' = DOMAIN ingredients_dict
          /\ recipes[r_idx].title \in Range(recipe_sources'[Current.ing_name])]_vars

\* the sum of two optional quantities: absent only when both are absent
SumOptional(p, q) ==
    IF p = None /\ q = None THEN None
    ELSE FAdd(IF IsFloat(p) THEN p ELSE Float(0, 1),
              IF IsFloat(q) THEN q ELSE Float(0, 1))

\* C3: when an item is merged into an entry of the same name and the same
\* unit (both absent included), the stored quantity becomes the sum of the
\* two, an absent quantity counting as 0 next to a present one; it is absent
\* only when both are absent, so a present 0 never becomes absent, and the
\* sum is the same in either order.
C3_SameUnitSum ==
    [][(Merging /\ Stored.unit = Current.unit)
       => ingredients_dict'[Current.ing_name].qty
              = SumOptional(Stored.qty, Current.qty)]_vars

\* the recipe at position r of the queryset has an item under ing_name
Lists(r, ing_name) ==
    \E k \in DOMAIN Split(recipes[r].ingredients) :
        LET e == ParseItem(Split(recipes[r].ingredients)[k])
        IN  ~e.skip /\ e.ing_name = ing_name

NoDuplicates(s) == \A i, j \in DOMAIN s : s[i] = s[j] => i = j

\* C4: in the finished list every item's contributing recipes hold no
\* duplicate and one element per distinct recipe that listed the ingredient,
\* and the displayed count is the length of that list.
C4_OneSourcePerRecipe ==
    pc = "done" =>
        \A i \in DOMAIN items :
            /\ NoDuplicates(items[i].recipes)
            /\ Len(items[i].recipes)
                   = Cardinality({r \in DOMAIN recipes : Lists(r, items[i].name)})
            /\ items[i].count = Len(items[i].recipes)

\* C5: in the finished list two item lines share one entry exactly when their
\* names, trimmed and without the parenthesized descriptor, are equal after
\* lowercasing: no two entries have names that differ only in letter case.
C5_MergedByLowercasedName ==
    pc = "done" =>
        \A i, j \in DOMAIN items :
            Lower(items[i].name) = Lower(items[j].name) => i = j

----------------------------------------------------------------------------
(* Claims about parse_quantity and normalize_ingredient *)

\* s is "<int>/0" or "<int> <int>/0"
ZeroDenominator(s) ==
    \/ MatchMixed(s).ok /\ ToInt(MatchMixed(s).g3) = 0
    \/ MatchSimple(s).ok /\ ToInt(MatchSimple(s).g2) = 0

\* C6: parse_quantity of a fraction text with denominator zero returns None
\* and does not raise; normalize_ingredient of a line whose quantity segment
\* is such a fraction returns a triple with quantity None and does not raise.
C6_ZeroDenominatorAbsent ==
    /\ (pc = "parsed" /\ ZeroDenominator(Strip(arg))) => result = None
    /\ (/\ pc = "normalized"
        /\ Strip(arg) # <<>>
        /\ ZeroDenominator(Strip(MatchIngredient(Strip(arg)).g1)))
       => (~result.raised /\ result.quantity = None)

\* C7: for a line "<quantity> <unit word> <name>" whose quantity parses, whose
\* unit word is a spelling of the unit table and whose name is one or more
\* words, normalize_ingredient returns the parsed quantity, the canonical unit
\* of the spelling and the whole lowercased name.
C7_QuantityUnitName ==
    pc = "normalized" =>
        \A q \in LineQuantities, u \in DOMAIN UNIT_MAP, n \in LineNames :
            (arg = Words(q, u, n) /\ IsFloat(parse_quantity(q)))
            => result = Parsed(parse_quantity(q), UNIT_MAP[u], Lower(n))

\* s[i..j] is a word of s: a longest run of characters other than whitespace
IsWordAt(s, i, j) ==
    /\ i <= j
    /\ \A k \in i..j : s[k] \notin Whitespace
    /\ (i = 1 \/ s[i - 1] \in Whitespace)
    /\ (j = Len(s) \/ s[j + 1] \in Whitespace)

HasUnitWord(s) ==
    \E i, j \in 1..Len(s) :
        IsWordAt(s, i, j) /\ Lower(Slice(s, i, j)) \in DOMAIN UNIT_MAP

\* C8: for a non-empty line with no digit and no word that is a spelling of
\* the unit table, normalize_ingredient returns quantity None, unit None and
\* the entire trimmed, lowercased line as the name.
C8_NoQuantityNoUnit ==
    (/\ pc = "normalized"
     /\ Strip(arg) # <<>>
     /\ Range(arg) \cap Digits = {}
     /\ ~HasUnitWord(arg))
    => result = Parsed(None, NoneStr, Lower(Strip(arg)))

\* a plain non-negative integer or decimal literal
NonNegativeLiteral(s) == IsFloat(PyFloat(s)) /\ s[1] \notin {"-", "+"}

\* C10: parse_quantity returns a value only for a mixed fraction, a simple
\* fraction, or a plain non-negative integer or decimal literal; for every
\* other text, a negative number included, it returns None.
C10_OnlyListedForms ==
    (/\ pc = "parsed"
     /\ ~MatchMixed(Strip(arg)).ok
     /\ ~MatchSimple(Strip(arg)).ok
     /\ ~NonNegativeLiteral(Strip(arg)))
    => result = None

----------------------------------------------------------------------------
(* Claims about format_quantity *)

\* C9: format_quantity(0.5, "tsp") is "1/2 tsp", format_quantity(2.0, "cup")
\* is "2 cups" and format_quantity(1.5, "tbsp") is "1 1/2 tbsp".
C9_FormatExamples ==
    pc = "formatted" =>
        /\ (arg = [quantity |-> Float(1, 2), unit |-> <<"t", "s", "p">>]
               => result = <<"1", "/", "2", " ", "t", "s", "p">>)
        /\ (arg = [quantity |-> Float(2, 1), unit |-> <<"c", "u", "p">>]
               => result = <<"2", " ", "c", "u", "p", "s">>)
        /\ (arg = [quantity |-> Float(3, 2), unit |-> <<"t", "b", "s", "p">>]
               => result = <<"1", " ", "1", "/", "2", " ", "t", "b", "s", "p">>)

----------------------------------------------------------------------------
(* Claims about aggregate_ingredients *)

\* C11: aggregate_ingredients returns a mapping equal to its input: as each
\* name is a key of the input once, the name at hand is never in aggregated
\* already, so every iteration stores the input's own tuple under the input's
\* own key; nothing is summed or converted and no decorated key is created.
C11_ReturnsInput ==
    /\ pc = "aggregating" =>
         /\ agg_idx <= Len(arg.keys) => ~InDict(aggregated, arg.keys[agg_idx])
         /\ aggregated.keys = SubSeq(arg.keys, 1, agg_idx - 1)
         /\ \A k \in DOMAIN aggregated.map : aggregated.map[k] = arg.map[k]
    /\ pc = "returned" => result = arg

\* a returned dict whose input held a name, the key that name would be
\* decorated to, and a quantity that is absent
C11_Witness ==
    /\ pc = "returned"
    /\ InDict(arg, <<"f", "l", "o", "u", "r">>) /\ InDict(arg, <<"f", "l", "o", "u", "r", " ", "(", "c", "u", "p", ")">>)
    /\ arg.map[<<"f", "l", "o", "u", "r">>].unit = <<"c", "u", "p">>
    /\ arg.map[<<"f", "l", "o", "u", "r", " ", "(", "c", "u", "p", ")">>] = [qty |-> None, unit |-> <<"t", "b", "s", "p">>]
    /\ result = arg

====
